---- MODULE Spec2Model ----
(***************************************************************************)
(* Model of appinsights/src/config.rs: the Config value and the two-stage  *)
(* builder chain DefaultBuilder -> Builder -> Config.                      *)
(*                                                                         *)
(* Rust moves are modelled by ownership slots: a slot holds the value      *)
(* while the binding owns it and NoValue once the value has been moved     *)
(* out (every stage method takes `self` by value).                         *)
(***************************************************************************)
EXTENDS Naturals, Sequences, FiniteSets

VARIABLES
    dflt,      \* TRUE while a DefaultBuilder token is owned by the caller
    builder,   \* the Builder owned by the caller, or NoValue
    config,    \* the Config owned by the caller, or NoValue
    via,       \* which entry point was used: "none", "new" or "builder"
    seedKey,   \* history: argument of Config::new / DefaultBuilder::with_ikey
    calls,     \* history: the override calls made on the Builder, in order
    ret        \* the most recent accessor call: its name, the value it
               \* returned and the number of override calls made before it

vars == <<dflt, builder, config, via, seedKey, calls, ret>>

\* Bound on the number of override calls made on one builder.
MaxCalls == 3

NoValue == [moved |-> TRUE]
NoRet == [op |-> "none", at |-> 0]

-----------------------------------------------------------------------------
(* std::time::Duration is a pair (secs: u64, nanos: u32 < 10^9).           *)

Duration_from_secs(s) == [secs |-> s, nanos |-> 0]

Duration_from_micros(m) ==
    [secs |-> m \div 1000000, nanos |-> (m % 1000000) * 1000]

(* From<&str> for String / From<String> for String: the owned string has  *)
(* the same contents as the argument.                                      *)
Into_String(s) == s

\* Argument values the callers pass.
IKeys == {"", "ik-1", "ik-2"}
Endpoints == {"", "https://example.com", "https://dc.services.visualstudio.com/v2/track"}
Durations == {Duration_from_secs(0), Duration_from_micros(100), Duration_from_secs(2)}

-----------------------------------------------------------------------------
(* Pure functions of config.rs.                                            *)

\* Mutants of DefaultBuilder::with_ikey.
DefaultBuilder_with_ikey_millis(ikey) ==
    [ikey |-> Into_String(ikey),
     endpoint |-> Into_String("https://dc.services.visualstudio.com/v2/track"),
     interval |-> Duration_from_micros(2000)]

DefaultBuilder_with_ikey_unseeded(ikey) ==
    [ikey |-> Into_String(ikey),
     endpoint |-> "",
     interval |-> Duration_from_secs(2)]

DefaultBuilder_with_ikey(ikey) ==
    [ikey |-> Into_String(ikey),
     endpoint |-> Into_String("https://dc.services.visualstudio.com/v2/track"),
     interval |-> Duration_from_secs(2)]

\* Mutant of Builder::with_ikey: re-seeds the other fields.
Builder_with_ikey_reseed(self, ikey) == DefaultBuilder_with_ikey(ikey)

Builder_with_ikey(self, ikey) == [self EXCEPT !.ikey = Into_String(ikey)]

\* Mutants of Builder::with_endpoint.
Builder_with_endpoint_first(self, endpoint) ==
    IF self.endpoint = "https://dc.services.visualstudio.com/v2/track"
    THEN [self EXCEPT !.endpoint = Into_String(endpoint)]
    ELSE self

Builder_with_endpoint_clobber(self, endpoint) ==
    [self EXCEPT !.endpoint = Into_String(endpoint),
                 !.interval = Duration_from_secs(2)]

Builder_with_endpoint(self, endpoint) ==
    [self EXCEPT !.endpoint = Into_String(endpoint)]

\* Mutant of Builder::with_interval: a zero interval is ignored.
Builder_with_interval_nonzero(self, interval) ==
    IF interval = Duration_from_secs(0) THEN self
    ELSE [self EXCEPT !.interval = interval]

Builder_with_interval(self, interval) == [self EXCEPT !.interval = interval]

\* Mutant of Builder::build: ikey and endpoint swapped.
Builder_build_swapped(self) ==
    [ikey |-> self.endpoint, endpoint |-> self.ikey, interval |-> self.interval]

Builder_build(self) ==
    [ikey |-> self.ikey, endpoint |-> self.endpoint, interval |-> self.interval]

Builder_endpoint(self) == self.endpoint
Builder_interval(self) == self.interval

\* Mutant of Config::new: builds the value itself with its own defaults.
Config_new_inline(ikey) ==
    [ikey |-> ikey,
     endpoint |-> "https://dc.services.visualstudio.com/v2/track",
     interval |-> Duration_from_secs(1)]

Config_new(ikey) == Builder_build(DefaultBuilder_with_ikey(ikey))

Config_ikey(self) == self.ikey
Config_endpoint(self) == self.endpoint
Config_interval(self) == self.interval

-----------------------------------------------------------------------------
(* State machine: one caller driving one construction.                     *)

Init ==
    /\ dflt = FALSE
    /\ builder = NoValue
    /\ config = NoValue
    /\ via = "none"
    /\ seedKey = ""
    /\ calls = <<>>
    /\ ret = NoRet

\* let config = Config::new(ikey);
New ==
    \E ikey \in IKeys :
        /\ via = "none"
        /\ config' = Config_new(ikey)
        /\ via' = "new"
        /\ seedKey' = ikey
        /\ UNCHANGED <<dflt, builder, calls, ret>>

\* let b = Config::builder();
StartBuilder ==
    /\ via = "none"
    /\ dflt' = TRUE
    /\ via' = "builder"
    /\ UNCHANGED <<builder, config, seedKey, calls, ret>>

\* let b = b.with_ikey(ikey);   (b: DefaultBuilder, moved)
Seed ==
    \E ikey \in IKeys :
        /\ dflt
        /\ dflt' = FALSE
        /\ builder' = DefaultBuilder_with_ikey(ikey)
        /\ seedKey' = ikey
        /\ UNCHANGED <<config, via, calls, ret>>

\* let b = b.with_ikey(ikey);   (b: Builder)
WithIkey(ikey) ==
    /\ builder # NoValue
    /\ Len(calls) < MaxCalls
    /\ builder' = Builder_with_ikey(builder, ikey)
    /\ calls' = Append(calls, [op |-> "with_ikey", arg |-> ikey])
    /\ UNCHANGED <<dflt, config, via, seedKey, ret>>

\* let b = b.with_endpoint(endpoint);
WithEndpoint(endpoint) ==
    /\ builder # NoValue
    /\ Len(calls) < MaxCalls
    /\ builder' = Builder_with_endpoint(builder, endpoint)
    /\ calls' = Append(calls, [op |-> "with_endpoint", arg |-> endpoint])
    /\ UNCHANGED <<dflt, config, via, seedKey, ret>>

\* let b = b.with_interval(interval);
WithInterval(interval) ==
    /\ builder # NoValue
    /\ Len(calls) < MaxCalls
    /\ builder' = Builder_with_interval(builder, interval)
    /\ calls' = Append(calls, [op |-> "with_interval", arg |-> interval])
    /\ UNCHANGED <<dflt, config, via, seedKey, ret>>

Override ==
    \/ \E ikey \in IKeys : WithIkey(ikey)
    \/ \E endpoint \in Endpoints : WithEndpoint(endpoint)
    \/ \E interval \in Durations : WithInterval(interval)

\* b.endpoint()
PeekEndpoint ==
    /\ builder # NoValue
    /\ ret' = [op |-> "Builder::endpoint", at |-> Len(calls), val |-> Builder_endpoint(builder)]
    /\ UNCHANGED <<dflt, builder, config, via, seedKey, calls>>

\* b.interval()
PeekInterval ==
    /\ builder # NoValue
    /\ ret' = [op |-> "Builder::interval", at |-> Len(calls), val |-> Builder_interval(builder)]
    /\ UNCHANGED <<dflt, builder, config, via, seedKey, calls>>

\* Mutant of build: the builder is only borrowed and stays usable.
Build_borrowing ==
    /\ builder # NoValue
    /\ config' = Builder_build(builder)
    /\ UNCHANGED <<dflt, builder, via, seedKey, calls, ret>>

\* let config = b.build();   (b moved)
Build ==
    /\ builder # NoValue
    /\ config' = Builder_build(builder)
    /\ builder' = NoValue
    /\ UNCHANGED <<dflt, via, seedKey, calls, ret>>

\* config.ikey()
GetIkey ==
    /\ config # NoValue
    /\ ret' = [op |-> "Config::ikey", at |-> Len(calls), val |-> Config_ikey(config)]
    /\ UNCHANGED <<dflt, builder, config, via, seedKey, calls>>

\* Mutant of Config::endpoint: the string is taken out of the Config.
GetEndpoint_take ==
    /\ config # NoValue
    /\ ret' = [op |-> "Config::endpoint", at |-> Len(calls), val |-> Config_endpoint(config)]
    /\ config' = [config EXCEPT !.endpoint = ""]
    /\ UNCHANGED <<dflt, builder, via, seedKey, calls>>

\* config.endpoint()
GetEndpoint ==
    /\ config # NoValue
    /\ ret' = [op |-> "Config::endpoint", at |-> Len(calls), val |-> Config_endpoint(config)]
    /\ UNCHANGED <<dflt, builder, config, via, seedKey, calls>>

\* config.interval()
GetInterval ==
    /\ config # NoValue
    /\ ret' = [op |-> "Config::interval", at |-> Len(calls), val |-> Config_interval(config)]
    /\ UNCHANGED <<dflt, builder, config, via, seedKey, calls>>

Next ==
    \/ New
    \/ StartBuilder
    \/ Seed
    \/ Override
    \/ PeekEndpoint
    \/ PeekInterval
    \/ Build
    \/ GetIkey
    \/ GetEndpoint
    \/ GetInterval

Spec == Init /\ [][Next]_vars

-----------------------------------------------------------------------------
(* Vocabulary of the properties.                                           *)

DefaultEndpoint == "https://dc.services.visualstudio.com/v2/track"
TwoSeconds == [secs |-> 2, nanos |-> 0]
ZeroDuration == [secs |-> 0, nanos |-> 0]
HundredMicros == [secs |-> 0, nanos |-> 100000]
Fields == {"ikey", "endpoint", "interval"}
Overrides == {"with_ikey", "with_endpoint", "with_interval"}

HasBuilder == builder # NoValue
HasConfig == config # NoValue

Stage ==
    IF HasConfig THEN "Config"
    ELSE IF HasBuilder THEN "Builder"
    ELSE IF dflt THEN "DefaultBuilder"
    ELSE "Start"

Live == {s \in {"DefaultBuilder", "Builder", "Config"} :
            \/ s = "DefaultBuilder" /\ dflt
            \/ s = "Builder" /\ HasBuilder
            \/ s = "Config" /\ HasConfig}

CallsOf(op) == {i \in 1..Len(calls) : calls[i].op = op}
Called(op) == CallsOf(op) # {}
LastIndex(op) == CHOOSE i \in CallsOf(op) : \A j \in CallsOf(op) : j <= i
LastArg(op) == calls[LastIndex(op)].arg
LastOp == calls[Len(calls)].op
Returned(op) == ret.op = op

\* C1: Config::new(k) yields a Config whose ikey is k, whose endpoint is the
\* default endpoint and whose interval is 2 seconds, and the accessors
\* return exactly these values.
C1_NewDefaults ==
    (via = "new" /\ HasConfig) =>
        /\ config.ikey = seedKey
        /\ config.endpoint = "https://dc.services.visualstudio.com/v2/track"
        /\ config.interval = [secs |-> 2, nanos |-> 0]
        /\ Returned("Config::ikey") => ret.val = seedKey
        /\ Returned("Config::endpoint") =>
               ret.val = "https://dc.services.visualstudio.com/v2/track"
        /\ Returned("Config::interval") => ret.val = [secs |-> 2, nanos |-> 0]

C1_Witness ==
    /\ via = "new"
    /\ HasConfig
    /\ seedKey = "ik-1"
    /\ Returned("Config::interval")

\* C2: after seeding, with_ikey(k), with_endpoint(e) and with_interval(d)
\* applied once each, in any order, followed by build(), yield the Config
\* (k, e, d), whatever the order of the three calls was.
C2_OrderIndependent ==
    (/\ via = "builder"
     /\ HasConfig
     /\ Len(calls) = 3
     /\ \A op \in Overrides : Cardinality(CallsOf(op)) = 1) =>
        config = [ikey |-> LastArg("with_ikey"),
                  endpoint |-> LastArg("with_endpoint"),
                  interval |-> LastArg("with_interval")]

C2_Witness ==
    /\ via = "builder"
    /\ HasConfig
    /\ seedKey = "ik-1"
    /\ calls = << [op |-> "with_interval", arg |-> HundredMicros],
                  [op |-> "with_ikey", arg |-> "ik-2"],
                  [op |-> "with_endpoint", arg |-> "https://example.com"] >>

LastWriteWins ==
    HasBuilder =>
        /\ Called("with_ikey") => builder.ikey = LastArg("with_ikey")
        /\ Called("with_endpoint") => builder.endpoint = LastArg("with_endpoint")
        /\ Called("with_interval") => builder.interval = LastArg("with_interval")

RepeatedCall ==
    /\ Len(calls) > 0
    /\ Len(calls') = Len(calls) + 1
    /\ calls'[Len(calls')].op = LastOp
    /\ calls'[Len(calls')].arg = calls[Len(calls)].arg

\* C3: after any sequence of override calls each overridden field of the
\* builder holds the argument of the most recent override of that field,
\* and repeating the previous override call with the same argument leaves
\* the builder as it was.
C3_LastWriteWins ==
    [][LastWriteWins' /\ (RepeatedCall => builder' = builder)]_vars

C3_Witness ==
    /\ HasBuilder
    /\ calls = << [op |-> "with_endpoint", arg |-> ""],
                  [op |-> "with_endpoint", arg |-> "https://example.com"],
                  [op |-> "with_endpoint", arg |-> "https://example.com"] >>

OverrideStep(op) ==
    /\ Len(calls') = Len(calls) + 1
    /\ calls'[Len(calls')].op = op

\* C4: every override step changes only its own field of the builder:
\* with_endpoint keeps ikey and interval, with_interval keeps ikey and
\* endpoint, with_ikey keeps endpoint and interval.
C4_Frame ==
    [][/\ OverrideStep("with_endpoint") =>
            builder'.ikey = builder.ikey /\ builder'.interval = builder.interval
       /\ OverrideStep("with_interval") =>
            builder'.ikey = builder.ikey /\ builder'.endpoint = builder.endpoint
       /\ OverrideStep("with_ikey") =>
            builder'.endpoint = builder.endpoint /\ builder'.interval = builder.interval
      ]_vars

C4_Witness ==
    /\ HasBuilder
    /\ Len(calls) = 3
    /\ calls[1] = [op |-> "with_interval", arg |-> HundredMicros]
    /\ calls[2].op = "with_endpoint"
    /\ calls[3].op = "with_endpoint"
    /\ builder.interval = HundredMicros
    /\ builder.ikey = "ik-2"

\* C5: the Config built by Config::builder().with_ikey(k).build() with no
\* override is equal, field by field, to the Config of Config::new(k).
C5_NewEqualsBuilder ==
    (via = "builder" /\ HasConfig /\ calls = <<>>) => config = Config_new(seedKey)

C5_Witness ==
    /\ via = "builder"
    /\ HasConfig
    /\ calls = <<>>
    /\ seedKey = "ik-2"

\* C6: the pipeline only moves forward: a DefaultBuilder is left only by
\* seeding a Builder, overrides stay in Builder, a Builder is left only by
\* build() into Config, at most one stage is alive at a time, and once the
\* Config exists no seed, override or build step happens any more.
C6_Pipeline ==
    [][/\ Cardinality(Live') <= 1
       /\ Stage = "DefaultBuilder" =>
            \/ Stage' = "DefaultBuilder"
            \/ Stage' = "Builder" /\ calls' = <<>> /\ builder'.ikey = seedKey'
       /\ Stage = "Builder" =>
            \/ Stage' = "Builder"
            \/ Stage' = "Config" /\ calls' = calls
       /\ Stage = "Config" =>
            /\ Stage' = "Config"
            /\ UNCHANGED <<dflt, builder, via, seedKey, calls>>
      ]_vars

C6_Witness ==
    /\ Stage = "Config"
    /\ via = "builder"
    /\ Len(calls) = 2
    /\ Returned("Config::ikey")

\* C7: once the Config exists its three fields never change, whatever
\* accessors are called on it.
C7_Immutable ==
    [][HasConfig => config' = config]_vars

C7_Witness ==
    /\ HasConfig
    /\ via = "builder"
    /\ Returned("Config::endpoint")
    /\ config.endpoint = "https://example.com"

IsBuilderValue(b) ==
    /\ DOMAIN b = Fields
    /\ b.ikey \in STRING
    /\ b.endpoint \in STRING
    /\ DOMAIN b.interval = {"secs", "nanos"}

\* C8: seeding, every override and build() are defined for every argument
\* and staged value and yield a well-formed value, and an empty ikey and a
\* zero interval come back unchanged from Config::ikey() and
\* Config::interval().
C8_Total ==
    /\ dflt => \A k \in IKeys : ENABLED (dflt' = FALSE /\ builder' = DefaultBuilder_with_ikey(k))
    /\ HasBuilder =>
        /\ \A k \in IKeys : IsBuilderValue(Builder_with_ikey(builder, k))
        /\ \A e \in Endpoints : IsBuilderValue(Builder_with_endpoint(builder, e))
        /\ \A d \in Durations : IsBuilderValue(Builder_with_interval(builder, d))
        /\ IsBuilderValue(Builder_build(builder))
        /\ ENABLED Build
        /\ Len(calls) < MaxCalls =>
            /\ \A k \in IKeys : ENABLED WithIkey(k)
            /\ \A e \in Endpoints : ENABLED WithEndpoint(e)
            /\ \A d \in Durations : ENABLED WithInterval(d)
    /\ (HasConfig /\ via = "builder") =>
        /\ IsBuilderValue(config)
        /\ (Called("with_ikey") /\ LastArg("with_ikey") = "") =>
            /\ config.ikey = ""
            /\ Returned("Config::ikey") => ret.val = ""
        /\ (~Called("with_ikey") /\ seedKey = "") =>
            /\ config.ikey = ""
            /\ Returned("Config::ikey") => ret.val = ""
        /\ (Called("with_interval") /\ LastArg("with_interval") = [secs |-> 0, nanos |-> 0]) =>
            /\ config.interval = [secs |-> 0, nanos |-> 0]
            /\ Returned("Config::interval") => ret.val = [secs |-> 0, nanos |-> 0]

C8_Witness ==
    /\ HasConfig
    /\ via = "builder"
    /\ Called("with_ikey")
    /\ Called("with_interval")
    /\ config.ikey = ""
    /\ config.interval = ZeroDuration
    /\ Returned("Config::interval")
    /\ ret.val = ZeroDuration

SeededWhereNotOverridden(c) ==
    /\ DOMAIN c = Fields
    /\ ~Called("with_ikey") => c.ikey = seedKey
    /\ ~Called("with_endpoint") =>
           c.endpoint = "https://dc.services.visualstudio.com/v2/track"
    /\ ~Called("with_interval") => c.interval = [secs |-> 2, nanos |-> 0]

\* C9: every builder has all three fields populated, and a field that was
\* not overridden since seeding holds its seeded value, in the builder and
\* in the Config that build() makes of it: the default endpoint, 2 seconds,
\* and the key given to DefaultBuilder::with_ikey.
C9_DefaultsFirst ==
    /\ HasBuilder => SeededWhereNotOverridden(builder)
    /\ (HasConfig /\ via = "builder") => SeededWhereNotOverridden(config)

C9_Witness ==
    /\ HasConfig
    /\ via = "builder"
    /\ seedKey = "ik-1"
    /\ calls = << [op |-> "with_interval", arg |-> ZeroDuration] >>
    /\ config.endpoint = DefaultEndpoint

BuildStep == HasBuilder /\ ~HasConfig /\ HasConfig'
PeekStep(op) == HasBuilder /\ ret' # ret /\ ret'.op = op

\* C10: build() copies the staged fields verbatim into the Config, so the
\* Config's endpoint and interval are what the builder's peeks returned
\* immediately before build(), and a peek returns the staged value and
\* leaves the builder unchanged.
C10_BuildVerbatim ==
    [][/\ BuildStep =>
            /\ config'.ikey = builder.ikey
            /\ config'.endpoint = builder.endpoint
            /\ config'.interval = builder.interval
            /\ (Returned("Builder::endpoint") /\ ret.at = Len(calls)) =>
                   config'.endpoint = ret.val
            /\ (Returned("Builder::interval") /\ ret.at = Len(calls)) =>
                   config'.interval = ret.val
       /\ PeekStep("Builder::endpoint") =>
            ret'.val = builder.endpoint /\ builder' = builder /\ calls' = calls
       /\ PeekStep("Builder::interval") =>
            ret'.val = builder.interval /\ builder' = builder /\ calls' = calls
      ]_vars

C10_Witness ==
    /\ HasConfig
    /\ via = "builder"
    /\ Len(calls) = 2
    /\ Returned("Builder::endpoint")
    /\ ret.at = 2
    /\ ret.val = "https://example.com"
    /\ config.endpoint = "https://example.com"
    /\ config.ikey = "ik-2"

====
